---- MODULE Spec2Model ----
(***************************************************************************)
(* Model of nns/models/dlbs.py: the catalog of benchmark architectures     *)
(* (EnglishAcousticModel, AlexNet, DeepMNIST, VGG, Overfeat, ResNet).      *)
(*                                                                         *)
(* A graph is a record [name, layers], layers being the sequence of layer  *)
(* nodes in the order the code creates them.  A node carries the           *)
(* constructor arguments of the layer (kind, name, units, kernel, strides, *)
(* padding, activation), the indices of the nodes it is applied to         *)
(* (inputs) and the output shape the framework infers when the layer is    *)
(* applied (shape, without the batch axis).                                *)
(*                                                                         *)
(* State: the two class-level CONFIGS tables, a small heap of model        *)
(* objects, and for every object the graphs its create() calls returned.   *)
(***************************************************************************)
EXTENDS Integers, Sequences, FiniteSets, TLC

VARIABLES
    VGG_CONFIGS,     \* class attribute VGG.CONFIGS
    ResNet_CONFIGS,  \* class attribute ResNet.CONFIGS
    objs,            \* object identity -> fields of the model object
    ctor,            \* object identity -> constructor call and the fields right after it
    calls,           \* object identity -> number of create() calls so far
    first,           \* object identity -> graph returned by the first create()
    last             \* object identity -> graph returned by the latest create()

vars == <<VGG_CONFIGS, ResNet_CONFIGS, objs, ctor, calls, first, last>>

\* Largest number of create() calls followed on one object.
MaxCalls == 2

\* Object identities; two are enough to compare an object with another one.
Objects == {"m1", "m2"}

\* Python None where a str is optional; differs from every str below.
None == "<None>"

\* A layer argument that is not given / does not apply to the layer kind.
NoName == ""
NoPair == <<>>

\* A slot that holds no object, and the absence of a returned graph.
Unallocated == [cls |-> "<unallocated>"]
NoGraph == [name |-> None, layers |-> <<>>]

-----------------------------------------------------------------------------
(* Layer constructors: the arguments as written in the source, the others  *)
(* at the framework's defaults (Conv2D: strides (1, 1), padding 'valid';   *)
(* pooling: strides = pool size, padding 'valid').                         *)

Layer(kind, name, units, kernel, strides, padding, activation) ==
    [kind |-> kind, name |-> name, units |-> units, kernel |-> kernel,
     strides |-> strides, padding |-> padding, activation |-> activation]

InputLayer(shape, name) ==
    [Layer("Input", name, 0, NoPair, NoPair, "", None) EXCEPT !.kernel = shape]

Conv2D(filters, kernel, strides, padding, activation, name) ==
    Layer("Conv2D", name, filters, kernel, strides, padding, activation)

Dense(units, activation, name) ==
    Layer("Dense", name, units, NoPair, NoPair, "", activation)

MaxPooling2D(pool, strides, padding, name) ==
    Layer("MaxPooling2D", name, 0, pool, strides, padding, None)

AveragePooling2D(pool, name) ==
    Layer("AveragePooling2D", name, 0, pool, pool, "valid", None)

\* rate is kept in percent
Dropout(rate, name) == Layer("Dropout", name, rate, NoPair, NoPair, "", None)

Flatten(name) == Layer("Flatten", name, 0, NoPair, NoPair, "", None)

BatchNormalization(name) == Layer("BatchNormalization", name, 0, NoPair, NoPair, "", None)

Activation(activation, name) == Layer("Activation", name, 0, NoPair, NoPair, "", activation)

Add(name) == Layer("Add", name, 0, NoPair, NoPair, "", None)

-----------------------------------------------------------------------------
(* Shape inference done by the framework when a layer is applied.          *)

\* output length of one spatial axis of a convolution or pooling window
WindowOut(n, k, s, padding) ==
    IF padding = "same" THEN (n + s - 1) \div s ELSE (n - k) \div s + 1

RECURSIVE Product(_)
Product(s) == IF Len(s) = 0 THEN 1 ELSE Head(s) * Product(Tail(s))

OutShape(layer, in) ==
    CASE layer.kind = "Input" -> layer.kernel
      [] layer.kind = "Conv2D" ->
            <<WindowOut(in[1], layer.kernel[1], layer.strides[1], layer.padding),
              WindowOut(in[2], layer.kernel[2], layer.strides[2], layer.padding),
              layer.units>>
      [] layer.kind \in {"MaxPooling2D", "AveragePooling2D"} ->
            <<WindowOut(in[1], layer.kernel[1], layer.strides[1], layer.padding),
              WindowOut(in[2], layer.kernel[2], layer.strides[2], layer.padding),
              in[3]>>
      [] layer.kind = "Dense" -> [in EXCEPT ![Len(in)] = layer.units]
      [] layer.kind = "Flatten" -> <<Product(in)>>
      [] OTHER -> in

\* layer(inputs): the node is appended to the nodes created so far; its
\* output is the tensor of the new last node.
Apply(nodes, layer, inputs) ==
    LET in == IF Len(inputs) = 0 THEN <<>> ELSE nodes[inputs[1]].shape
        node == [kind |-> layer.kind, name |-> layer.name, units |-> layer.units,
                 kernel |-> layer.kernel, strides |-> layer.strides,
                 padding |-> layer.padding, activation |-> layer.activation,
                 inputs |-> inputs, shape |-> OutShape(layer, in)]
    IN  Append(nodes, node)

\* x = layer(x), x being the output of the latest node
ApplyToOutput(nodes, layer) == Apply(nodes, layer, <<Len(nodes)>>)

\* Sequential.add(layer): the layer is applied to the output of the last one.
SeqAdd(nodes, layer) ==
    Apply(nodes, layer, IF Len(nodes) = 0 THEN <<>> ELSE <<Len(nodes)>>)

RECURSIVE AddAll(_, _)
AddAll(nodes, layers) ==
    IF Len(layers) = 0 THEN nodes
    ELSE AddAll(SeqAdd(nodes, Head(layers)), Tail(layers))

\* tf.keras.models.Sequential(layers, name=name)
Sequential(layers, name) == [name |-> name, layers |-> AddAll(<<>>, layers)]

\* tf.keras.models.Model(input_, x, name=name) over the nodes created so far
FunctionalModel(nodes, name) == [name |-> name, layers |-> nodes]

\* nns.model.Model.__init__(name): the base class keeps the name it is given.
Model__init__(name) == name

\* Python's zero-based list[i]
At(list, i) == list[i + 1]

-----------------------------------------------------------------------------
(* EnglishAcousticModel                                                    *)

EnglishAcousticModel__init__ ==
    [cls |-> "EnglishAcousticModel", name |-> Model__init__("EnglishAcousticModel")]

EnglishAcousticModel_create(self) ==
    Sequential(<<
        InputLayer(<<540>>, "input"),
        Dense(2048, "relu", "dense1"),
        Dense(2048, "relu", "dense2"),
        Dense(2048, "relu", "dense3"),
        Dense(2048, "relu", "dense4"),
        Dense(2048, "relu", "dense5"),
        Dense(8192, "softmax", "dense6")
    >>, self.name)

-----------------------------------------------------------------------------
(* AlexNet                                                                 *)

\* variant of AlexNet__init__ that takes any given version for 'owt'
AlexNet__init__AnyVersion(version) ==
    [cls |-> "AlexNet",
     name |-> Model__init__(IF version # None THEN "AlexNetOWT" ELSE "AlexNet"),
     filters |-> IF version # None THEN <<64, 192, 384, 256, 256>>
                                   ELSE <<96, 256, 384, 384, 256>>]

AlexNet__init__(version) ==
    [cls |-> "AlexNet",
     name |-> Model__init__(IF version = "owt" THEN "AlexNetOWT" ELSE "AlexNet"),
     filters |-> IF version = "owt" THEN <<64, 192, 384, 256, 256>>
                                    ELSE <<96, 256, 384, 384, 256>>]

AlexNet_create(self) ==
    Sequential(<<
        InputLayer(<<227, 227, 3>>, "input"),
        Conv2D(At(self.filters, 0), <<11, 11>>, <<4, 4>>, "valid", "relu", "conv1"),
        MaxPooling2D(<<3, 3>>, <<2, 2>>, "valid", NoName),
        Conv2D(At(self.filters, 1), <<5, 5>>, <<1, 1>>, "same", "relu", "conv2"),
        MaxPooling2D(<<3, 3>>, <<2, 2>>, "valid", NoName),
        Conv2D(At(self.filters, 2), <<3, 3>>, <<1, 1>>, "same", "relu", "conv3"),
        Conv2D(At(self.filters, 3), <<3, 3>>, <<1, 1>>, "same", "relu", "conv4"),
        Conv2D(At(self.filters, 4), <<3, 3>>, <<1, 1>>, "same", "relu", "conv5"),
        MaxPooling2D(<<3, 3>>, <<2, 2>>, "valid", NoName),
        Flatten(NoName),
        Dense(4096, "relu", "fc6"),
        Dropout(50, NoName),
        Dense(4096, "relu", "fc7"),
        Dropout(50, NoName),
        Dense(1000, "softmax", "fc8")
    >>, self.name)

-----------------------------------------------------------------------------
(* DeepMNIST                                                               *)

DeepMNIST__init__ == [cls |-> "DeepMNIST", name |-> Model__init__("DeepMNIST")]

DeepMNIST_create(self) ==
    Sequential(<<
        InputLayer(<<28, 28, 1>>, "input"),
        Flatten(NoName),
        Dense(2500, "relu", "dense1"),
        Dense(2000, "relu", "dense2"),
        Dense(1500, "relu", "dense3"),
        Dense(1000, "relu", "dense4"),
        Dense(500, "relu", "dense5"),
        Dense(10, "softmax", "dense6")
    >>, self.name)

-----------------------------------------------------------------------------
(* VGG                                                                     *)

VGG_CONFIGS_table ==
    [v \in {"vgg11", "vgg13", "vgg16", "vgg19"} |->
        CASE v = "vgg11" -> [name |-> "VGG11", specs |-> << <<1, 1, 2, 2, 2>>, <<64, 128, 256, 512, 512>> >>]
          [] v = "vgg13" -> [name |-> "VGG13", specs |-> << <<2, 2, 2, 2, 2>>, <<64, 128, 256, 512, 512>> >>]
          [] v = "vgg16" -> [name |-> "VGG16", specs |-> << <<2, 2, 3, 3, 3>>, <<64, 128, 256, 512, 512>> >>]
          [] v = "vgg19" -> [name |-> "VGG19", specs |-> << <<2, 2, 4, 4, 4>>, <<64, 128, 256, 512, 512>> >>]]

VGG__init__(CONFIGS, version) ==
    [cls |-> "VGG", name |-> Model__init__(CONFIGS[version].name), version |-> version]

\* variant of VGG_convs that runs range(num + 1)
RECURSIVE VGG_convsOneMore(_, _, _, _, _)
VGG_convsOneMore(model, filters, i, num, j) ==
    IF j >= num + 1 THEN model
    ELSE VGG_convsOneMore(SeqAdd(model, Conv2D(At(filters, i), <<3, 3>>, <<1, 1>>, "same", "relu",
                                               "conv" \o ToString(i + 1) \o "_" \o ToString(j + 1))),
                          filters, i, num, j + 1)

\* for j in range(num): model.add(Conv2D(...))        (from j on)
RECURSIVE VGG_convs(_, _, _, _, _)
VGG_convs(model, filters, i, num, j) ==
    IF j >= num THEN model
    ELSE VGG_convs(SeqAdd(model, Conv2D(At(filters, i), <<3, 3>>, <<1, 1>>, "same", "relu",
                                        "conv" \o ToString(i + 1) \o "_" \o ToString(j + 1))),
                   filters, i, num, j + 1)

\* for i, num in enumerate(layers): ...                (from i on)
RECURSIVE VGG_blocks(_, _, _, _)
VGG_blocks(model, layers, filters, i) ==
    IF i >= Len(layers) THEN model
    ELSE VGG_blocks(SeqAdd(VGG_convs(model, filters, i, At(layers, i), 0),
                           MaxPooling2D(<<2, 2>>, <<2, 2>>, "valid", "pool" \o ToString(i + 1))),
                    layers, filters, i + 1)

\* for i in range(2): fc and dropout                   (from i on)
RECURSIVE VGG_fcs(_, _)
VGG_fcs(model, i) ==
    IF i >= 2 THEN model
    ELSE VGG_fcs(SeqAdd(SeqAdd(model, Dense(4096, "relu", "fc" \o ToString(6 + i))),
                        Dropout(50, "dropout" \o ToString(6 + i))),
                 i + 1)

VGG_create(self, CONFIGS) ==
    LET layers  == CONFIGS[self.version].specs[1]
        filters == CONFIGS[self.version].specs[2]
        m0 == SeqAdd(<<>>, InputLayer(<<224, 224, 3>>, "input"))
        m1 == VGG_blocks(m0, layers, filters, 0)
        m2 == SeqAdd(m1, Flatten(NoName))
        m3 == VGG_fcs(m2, 0)
        m4 == SeqAdd(m3, Dense(1000, "softmax", "fc8"))
    IN  [name |-> self.name, layers |-> m4]

-----------------------------------------------------------------------------
(* Overfeat                                                                *)

Overfeat__init__ == [cls |-> "Overfeat", name |-> Model__init__("Overfeat")]

Overfeat_create(self) ==
    Sequential(<<
        InputLayer(<<231, 231, 3>>, "input"),
        Conv2D(96, <<11, 11>>, <<4, 4>>, "valid", "relu", "conv1"),
        MaxPooling2D(<<2, 2>>, <<2, 2>>, "valid", NoName),
        Conv2D(256, <<5, 5>>, <<1, 1>>, "valid", "relu", "conv2"),
        MaxPooling2D(<<2, 2>>, <<2, 2>>, "valid", NoName),
        Conv2D(512, <<3, 3>>, <<1, 1>>, "same", "relu", "conv3"),
        Conv2D(1024, <<3, 3>>, <<1, 1>>, "same", "relu", "conv4"),
        Conv2D(1024, <<3, 3>>, <<1, 1>>, "same", "relu", "conv5"),
        MaxPooling2D(<<2, 2>>, <<2, 2>>, "valid", NoName),
        Flatten(NoName),
        Dense(3072, "relu", "fc6"),
        Dropout(50, NoName),
        Dense(4096, "relu", "fc7"),
        Dropout(50, NoName),
        Dense(1000, "softmax", "fc8")
    >>, self.name)

-----------------------------------------------------------------------------
(* ResNet                                                                  *)

ResNet_CONFIGS_table ==
    [v \in {"resnet18", "resnet34", "resnet50", "resnet101", "resnet152", "resnet200", "resnet269"} |->
        CASE v = "resnet18"  -> [name |-> "ResNet18",  units |-> <<2, 2, 2, 2>>,    num_layers |-> 18]
          [] v = "resnet34"  -> [name |-> "ResNet34",  units |-> <<3, 4, 6, 3>>,    num_layers |-> 34]
          [] v = "resnet50"  -> [name |-> "ResNet50",  units |-> <<3, 4, 6, 3>>,    num_layers |-> 50]
          [] v = "resnet101" -> [name |-> "ResNet101", units |-> <<3, 4, 23, 3>>,   num_layers |-> 101]
          [] v = "resnet152" -> [name |-> "ResNet152", units |-> <<3, 8, 36, 3>>,   num_layers |-> 152]
          [] v = "resnet200" -> [name |-> "ResNet200", units |-> <<3, 24, 36, 3>>,  num_layers |-> 200]
          [] v = "resnet269" -> [name |-> "ResNet269", units |-> <<3, 30, 48, 8>>,  num_layers |-> 269]]

\* variant of ResNet__init__ that tests num_layers > 50
ResNet__init__Above50(CONFIGS, version) ==
    [cls |-> "ResNet", name |-> Model__init__(CONFIGS[version].name), version |-> version,
     filter_list |-> IF CONFIGS[version].num_layers > 50
                     THEN <<64, 256, 512, 1024, 2048>> ELSE <<64, 64, 128, 256, 512>>,
     bottle_neck |-> CONFIGS[version].num_layers > 50]

ResNet__init__(CONFIGS, version) ==
    [cls |-> "ResNet", name |-> Model__init__(CONFIGS[version].name), version |-> version,
     filter_list |-> IF CONFIGS[version].num_layers >= 50
                     THEN <<64, 256, 512, 1024, 2048>> ELSE <<64, 64, 128, 256, 512>>,
     bottle_neck |-> CONFIGS[version].num_layers >= 50]

\* Conv2D, BatchNormalization and the optional Activation applied to node
\* input_; the result is the last node of the returned sequence.
conv_block(nodes, input_, num_filters, kernel, strides, padding, activation, name) ==
    LET c == Apply(nodes, Conv2D(num_filters, kernel, strides, padding, None, name \o "/conv"),
                   <<input_>>)
        b == ApplyToOutput(c, BatchNormalization(name \o "/bn"))
    IN  IF activation # None
        THEN ApplyToOutput(b, Activation(activation, name \o "/" \o activation))
        ELSE b

\* x = ResNet.conv_block(x, ...), x being the output of the latest node
conv_block_x(nodes, num_filters, kernel, strides, padding, activation, name) ==
    conv_block(nodes, Len(nodes), num_filters, kernel, strides, padding, activation, name)

\* Final aggregation: Add of the shortcut and of x, the output of branch2, then relu
residual_sum(nodes, shortcut, name) ==
    ApplyToOutput(Apply(nodes, Add(name \o "/sum"), <<shortcut, Len(nodes)>>),
                  Activation("relu", name \o "/relu"))

\* Branch 2 and the final aggregation, branch1 being the nodes after Branch 1
\* (its output is the shortcut unless dim_match, when the shortcut is input_).
\* stride is an int; Conv2D receives it as strides and uses it on both axes.
residual_branch2(branch1, input_, num_filters, stride, dim_match, is_bottleneck, name) ==
    residual_sum(
        IF is_bottleneck
        THEN conv_block_x(
                 conv_block_x(
                     conv_block(branch1, input_, num_filters \div 4, <<1, 1>>, <<1, 1>>, "valid",
                                "relu", name \o "/branch2a"),
                     num_filters \div 4, <<3, 3>>, <<stride, stride>>, "same", "relu",
                     name \o "/branch2b"),
                 num_filters, <<1, 1>>, <<1, 1>>, "valid", None, name \o "/branch2c")
        ELSE conv_block_x(
                 conv_block(branch1, input_, num_filters, <<3, 3>>, <<stride, stride>>, "same",
                            "relu", name \o "/branch2a"),
                 num_filters, <<3, 3>>, <<1, 1>>, "same", None, name \o "/branch2b"),
        IF dim_match THEN input_ ELSE Len(branch1),
        name)

\* variant of residual_unit whose branch1 projection leaves strides at its default
residual_unitUnstridedShortcut(nodes, input_, num_filters, stride, dim_match, is_bottleneck, name) ==
    residual_branch2(
        IF dim_match THEN nodes
        ELSE conv_block(nodes, input_, num_filters, <<1, 1>>, <<1, 1>>, "same", None,
                        name \o "/branch1"),
        input_, num_filters, stride, dim_match, is_bottleneck, name)

residual_unit(nodes, input_, num_filters, stride, dim_match, is_bottleneck, name) ==
    residual_branch2(
        IF dim_match THEN nodes
        ELSE conv_block(nodes, input_, num_filters, <<1, 1>>, <<stride, stride>>, "same", None,
                        name \o "/branch1"),
        input_, num_filters, stride, dim_match, is_bottleneck, name)

\* variant of ResNet_units that runs range(units[i])
RECURSIVE ResNet_unitsOneMore(_, _, _, _, _)
ResNet_unitsOneMore(nodes, self, units, i, j) ==
    IF Len(nodes) = 0 \/ j >= At(units, i) THEN nodes
    ELSE ResNet_unitsOneMore(residual_unit(nodes, Len(nodes), At(self.filter_list, i + 1), 1, TRUE,
                                           self.bottle_neck,
                                           "res" \o ToString(i + 1) \o "b" \o ToString(j + 1)),
                             self, units, i, j + 1)

\* for j in range(units[i] - 1): ...                   (from j on)
\* x, the output of the last node, is evaluated before each iteration.
RECURSIVE ResNet_units(_, _, _, _, _)
ResNet_units(nodes, self, units, i, j) ==
    IF Len(nodes) = 0 \/ j >= At(units, i) - 1 THEN nodes
    ELSE ResNet_units(residual_unit(nodes, Len(nodes), At(self.filter_list, i + 1), 1, TRUE,
                                    self.bottle_neck,
                                    "res" \o ToString(i + 1) \o "b" \o ToString(j + 1)),
                      self, units, i, j + 1)

\* variant of ResNet_stages that opens every stage, the first included, with stride 2
RECURSIVE ResNet_stagesAllStrided(_, _, _, _)
ResNet_stagesAllStrided(nodes, self, units, i) ==
    IF Len(nodes) = 0 \/ i >= Len(units) THEN nodes
    ELSE LET a == residual_unit(nodes, Len(nodes), At(self.filter_list, i + 1),
                                2, FALSE, self.bottle_neck,
                                "res" \o ToString(i + 1) \o "a")
         IN  ResNet_stagesAllStrided(ResNet_units(a, self, units, i, 0), self, units, i + 1)

\* for i in range(len(units)): ...                     (from i on)
RECURSIVE ResNet_stages(_, _, _, _)
ResNet_stages(nodes, self, units, i) ==
    IF Len(nodes) = 0 \/ i >= Len(units) THEN nodes
    ELSE LET a == residual_unit(nodes, Len(nodes), At(self.filter_list, i + 1),
                                (IF i = 0 THEN 1 ELSE 2), FALSE, self.bottle_neck,
                                "res" \o ToString(i + 1) \o "a")
         IN  ResNet_stages(ResNet_units(a, self, units, i, 0), self, units, i + 1)

\* variant of ResNet_create that does not pass name=self.name to the graph
ResNet_createUnnamed(self, CONFIGS) ==
    LET units == CONFIGS[self.version].units
        in == Apply(<<>>, InputLayer(<<224, 224, 3>>, "input"), <<>>)
        c1 == conv_block_x(in, At(self.filter_list, 0), <<7, 7>>, <<2, 2>>, "same", "relu", "conv1")
        mp == ApplyToOutput(c1, MaxPooling2D(<<3, 3>>, <<2, 2>>, "same", "conv1/mpool"))
        x  == ResNet_stages(mp, self, units, 0)
        ap == ApplyToOutput(x, AveragePooling2D(<<7, 7>>, "apool"))
        fl == ApplyToOutput(ap, Flatten("flatten"))
        out == ApplyToOutput(fl, Dense(1000, "softmax", "output"))
    IN  FunctionalModel(out, "model")

ResNet_create(self, CONFIGS) ==
    LET units == CONFIGS[self.version].units
        in == Apply(<<>>, InputLayer(<<224, 224, 3>>, "input"), <<>>)
        c1 == conv_block_x(in, At(self.filter_list, 0), <<7, 7>>, <<2, 2>>, "same", "relu", "conv1")
        mp == ApplyToOutput(c1, MaxPooling2D(<<3, 3>>, <<2, 2>>, "same", "conv1/mpool"))
        x  == ResNet_stages(mp, self, units, 0)
        ap == ApplyToOutput(x, AveragePooling2D(<<7, 7>>, "apool"))
        fl == ApplyToOutput(ap, Flatten("flatten"))
        out == ApplyToOutput(fl, Dense(1000, "softmax", "output"))
    IN  FunctionalModel(out, self.name)

-----------------------------------------------------------------------------
(* The program: objects are constructed and create() is called on them.    *)

\* version arguments tried on AlexNet(version)
AlexNetVersions == {None, "owt", "OWT", "alexnet"}

Init ==
    /\ VGG_CONFIGS = VGG_CONFIGS_table
    /\ ResNet_CONFIGS = ResNet_CONFIGS_table
    /\ objs = [o \in Objects |-> Unallocated]
    /\ ctor = [o \in Objects |-> Unallocated]
    /\ calls = [o \in Objects |-> 0]
    /\ first = [o \in Objects |-> NoGraph]
    /\ last = [o \in Objects |-> NoGraph]

\* __init__ on the new object o: the fields it sets; ctor remembers the call.
Construct(o, version, fields) ==
    /\ objs' = [objs EXCEPT ![o] = fields]
    /\ ctor' = [ctor EXCEPT ![o] = [cls |-> fields.cls, version |-> version, fields |-> fields]]
    /\ UNCHANGED <<VGG_CONFIGS, ResNet_CONFIGS, calls, first, last>>

\* o.create() returned graph
Returned(o, graph) ==
    /\ calls[o] < MaxCalls
    /\ calls' = [calls EXCEPT ![o] = @ + 1]
    /\ first' = [first EXCEPT ![o] = IF calls[o] = 0 THEN graph ELSE @]
    /\ last' = [last EXCEPT ![o] = graph]

NewEnglishAcousticModel(o) ==
    /\ objs[o] = Unallocated
    /\ Construct(o, None, EnglishAcousticModel__init__)

NewAlexNet(o) ==
    /\ objs[o] = Unallocated
    /\ \E version \in AlexNetVersions : Construct(o, version, AlexNet__init__(version))

NewDeepMNIST(o) ==
    /\ objs[o] = Unallocated
    /\ Construct(o, None, DeepMNIST__init__)

NewVGG(o) ==
    /\ objs[o] = Unallocated
    /\ \E version \in DOMAIN VGG_CONFIGS :
          Construct(o, version, VGG__init__(VGG_CONFIGS, version))

NewOverfeat(o) ==
    /\ objs[o] = Unallocated
    /\ Construct(o, None, Overfeat__init__)

NewResNet(o) ==
    /\ objs[o] = Unallocated
    /\ \E version \in DOMAIN ResNet_CONFIGS :
          Construct(o, version, ResNet__init__(ResNet_CONFIGS, version))

CreateEnglishAcousticModel(o) ==
    /\ objs[o].cls = "EnglishAcousticModel"
    /\ Returned(o, EnglishAcousticModel_create(objs[o]))
    /\ UNCHANGED <<VGG_CONFIGS, ResNet_CONFIGS, objs, ctor>>

CreateAlexNet(o) ==
    /\ objs[o].cls = "AlexNet"
    /\ Returned(o, AlexNet_create(objs[o]))
    /\ UNCHANGED <<VGG_CONFIGS, ResNet_CONFIGS, objs, ctor>>

CreateDeepMNIST(o) ==
    /\ objs[o].cls = "DeepMNIST"
    /\ Returned(o, DeepMNIST_create(objs[o]))
    /\ UNCHANGED <<VGG_CONFIGS, ResNet_CONFIGS, objs, ctor>>

\* variant of CreateVGG that grows, in place, the first entry of the layers
\* list it reads from VGG.CONFIGS
CreateVGGInPlace(o) ==
    /\ objs[o].cls = "VGG"
    /\ Returned(o, VGG_create(objs[o], VGG_CONFIGS))
    /\ VGG_CONFIGS' = [VGG_CONFIGS EXCEPT ![objs[o].version].specs[1][1] = @ + 1]
    /\ UNCHANGED <<ResNet_CONFIGS, objs, ctor>>

CreateVGG(o) ==
    /\ objs[o].cls = "VGG"
    /\ Returned(o, VGG_create(objs[o], VGG_CONFIGS))
    /\ UNCHANGED <<VGG_CONFIGS, ResNet_CONFIGS, objs, ctor>>

CreateOverfeat(o) ==
    /\ objs[o].cls = "Overfeat"
    /\ Returned(o, Overfeat_create(objs[o]))
    /\ UNCHANGED <<VGG_CONFIGS, ResNet_CONFIGS, objs, ctor>>

CreateResNet(o) ==
    /\ objs[o].cls = "ResNet"
    /\ Returned(o, ResNet_create(objs[o], ResNet_CONFIGS))
    /\ UNCHANGED <<VGG_CONFIGS, ResNet_CONFIGS, objs, ctor>>

Next ==
    \E o \in Objects :
        \/ NewEnglishAcousticModel(o)
        \/ NewAlexNet(o)
        \/ NewDeepMNIST(o)
        \/ NewVGG(o)
        \/ NewOverfeat(o)
        \/ NewResNet(o)
        \/ CreateEnglishAcousticModel(o)
        \/ CreateAlexNet(o)
        \/ CreateDeepMNIST(o)
        \/ CreateVGG(o)
        \/ CreateOverfeat(o)
        \/ CreateResNet(o)

Spec == Init /\ [][Next]_vars

-----------------------------------------------------------------------------
(* Reading a returned graph.                                               *)

\* o is an object of class cls on which create() has been called
Called(o, cls) == objs[o].cls = cls /\ calls[o] >= 1

Nodes(L, kinds) == {k \in 1..Len(L) : L[k].kind \in kinds}

NodeNamed(L, name) == CHOOSE k \in 1..Len(L) : L[k].name = name

\* the node a node is applied to
Prev(L, k) == L[k].inputs[1]

\* the arguments the layer of a node was constructed with
Config(node) ==
    [kind |-> node.kind, name |-> node.name, units |-> node.units, kernel |-> node.kernel,
     strides |-> node.strides, padding |-> node.padding, activation |-> node.activation]

Arch(g) == [k \in 1..Len(g.layers) |-> Config(g.layers[k])]

\* Residual units are told by their Add node: inputs[1] is the shortcut and
\* inputs[2] the end of branch2.  The shortcut is a BatchNormalization
\* exactly when it is a branch1 projection.
AddNodes(L) == Nodes(L, {"Add"})

IsProjected(L, a) == L[L[a].inputs[1]].kind = "BatchNormalization"

Branch1Conv(L, a) == Prev(L, L[a].inputs[1])

Branch1Convs(L) == {Branch1Conv(L, a) : a \in {b \in AddNodes(L) : IsProjected(L, b)}}

\* the convolutions of branch2, last one first: each is followed by its
\* BatchNormalization, and all but the last by a relu
Branch2Convs(L, a, bottleneck) ==
    LET c3 == Prev(L, L[a].inputs[2])
        c2 == Prev(L, Prev(L, Prev(L, c3)))
        c1 == Prev(L, Prev(L, Prev(L, c2)))
    IN  IF bottleneck THEN <<c1, c2, c3>> ELSE <<c2, c3>>

\* the node a residual unit is applied to
UnitInput(L, a, bottleneck) == Prev(L, Branch2Convs(L, a, bottleneck)[1])

\* stage of a residual unit: every stage opens with its one projected unit
StageOf(L, a) == Cardinality({b \in AddNodes(L) : b <= a /\ IsProjected(L, b)})

-----------------------------------------------------------------------------
\* C1: the graph of every ResNet version has exactly CONFIGS[version]['num_layers']
\* weighted layers on its main path: the stem convolution conv1, the branch2
\* convolutions of every residual unit (2 per unit, 3 when bottleneck) and the
\* Dense 'output'; the branch1 projection convolutions are not counted.
C1_Depth ==
    \A o \in Objects : Called(o, "ResNet") =>
        LET L == last[o].layers
            cfg == ResNet_CONFIGS[objs[o].version]
            main == Nodes(L, {"Conv2D", "Dense"}) \ Branch1Convs(L)
            per == IF objs[o].bottle_neck THEN 3 ELSE 2
            branch2 == UNION {{Branch2Convs(L, a, objs[o].bottle_neck)[n] : n \in 1..per} :
                              a \in AddNodes(L)}
        IN  /\ Cardinality(main) = cfg.num_layers
            /\ Cardinality(AddNodes(L)) = cfg.units[1] + cfg.units[2] + cfg.units[3] + cfg.units[4]
            /\ Cardinality(branch2) = per * Cardinality(AddNodes(L))
            /\ main = {NodeNamed(L, "conv1/conv")} \cup branch2 \cup {NodeNamed(L, "output")}
            /\ Cardinality(Branch1Convs(L)) = Len(cfg.units)
            /\ \A k \in Branch1Convs(L) : L[k].kind = "Conv2D"

C1_Witness ==
    \E o \in Objects :
        /\ Called(o, "ResNet") /\ objs[o].version = "resnet269"
        /\ Cardinality(Nodes(last[o].layers, {"Conv2D", "Dense"}) \ Branch1Convs(last[o].layers)) = 269

-----------------------------------------------------------------------------
\* C2: the graph of every VGG version has exactly N weighted layers, N the
\* number in the model's name: the convolutions of the five blocks and the
\* Dense layers fc6, fc7, fc8; and it has exactly five max-pooling layers,
\* pool1..pool5, each closing its block.
VGG_Pools(L) == Nodes(L, {"MaxPooling2D"})

\* block of node k (pools before it, plus one) and the last node before k
\* that is not a convolution
VGG_BlockOf(L, k) == 1 + Cardinality({p \in VGG_Pools(L) : p < k})

VGG_BlockStart(L, k) ==
    CHOOSE p \in 1..(k - 1) : L[p].kind # "Conv2D" /\ \A q \in (p + 1)..(k - 1) : L[q].kind = "Conv2D"

C2_Depth ==
    \A o \in Objects : Called(o, "VGG") =>
        LET g == last[o]
            L == g.layers
            convs == Nodes(L, {"Conv2D"})
            dense == Nodes(L, {"Dense"})
        IN  /\ g.name = "VGG" \o ToString(Cardinality(convs) + Cardinality(dense))
            /\ objs[o].version = "vgg" \o ToString(Cardinality(convs) + Cardinality(dense))
            /\ {L[k].name : k \in dense} = {"fc6", "fc7", "fc8"}
            /\ Cardinality(dense) = 3
            /\ Cardinality(VGG_Pools(L)) = 5
            /\ \A p \in VGG_Pools(L) :
                  /\ L[p].name = "pool" \o ToString(VGG_BlockOf(L, p))
                  /\ L[p - 1].kind = "Conv2D"
                  /\ L[p + 1].kind \in {"Conv2D", "Flatten"}
                  /\ L[p + 1].kind = "Flatten" <=> VGG_BlockOf(L, p) = 5
            /\ \A k \in convs :
                  /\ VGG_BlockOf(L, k) <= 5
                  /\ L[k].name = "conv" \o ToString(VGG_BlockOf(L, k)) \o "_"
                                        \o ToString(k - VGG_BlockStart(L, k))
                  /\ L[VGG_BlockStart(L, k)].kind \in {"Input", "MaxPooling2D"}

C2_Witness ==
    \E o \in Objects :
        /\ Called(o, "VGG") /\ objs[o].version = "vgg19"
        /\ Cardinality(Nodes(last[o].layers, {"Conv2D", "Dense"})) = 19
        /\ Cardinality(VGG_Pools(last[o].layers)) = 5

-----------------------------------------------------------------------------
\* C3: AlexNet(version) is the OWT variant exactly when version == 'owt' (name
\* 'AlexNetOWT', widths [64, 192, 384, 256, 256]); any other version gives
\* 'AlexNet' with widths [96, 256, 384, 384, 256].  The graphs of the two
\* variants have the same layers in the same order and differ only in the
\* widths of conv1..conv4 (in fact of conv1, conv2 and conv4) and in the name.
AlexNet_Convs == <<"conv1", "conv2", "conv3", "conv4", "conv5">>

C3_Variants ==
    /\ \A o \in Objects : objs[o].cls = "AlexNet" =>
          /\ ctor[o].version = "owt" =>
                objs[o].name = "AlexNetOWT" /\ objs[o].filters = <<64, 192, 384, 256, 256>>
          /\ ctor[o].version # "owt" =>
                objs[o].name = "AlexNet" /\ objs[o].filters = <<96, 256, 384, 384, 256>>
          /\ calls[o] >= 1 =>
                /\ last[o].name = objs[o].name
                /\ \A n \in 1..5 :
                      last[o].layers[NodeNamed(last[o].layers, AlexNet_Convs[n])].units
                          = objs[o].filters[n]
    /\ \A o1, o2 \in Objects :
          (Called(o1, "AlexNet") /\ Called(o2, "AlexNet")
              /\ ctor[o1].version = "owt" /\ ctor[o2].version # "owt") =>
                LET L1 == last[o1].layers
                    L2 == last[o2].layers
                IN  /\ last[o1].name # last[o2].name
                    /\ Len(L1) = Len(L2)
                    /\ \A k \in 1..Len(L1) :
                          /\ [Config(L1[k]) EXCEPT !.units = 0] = [Config(L2[k]) EXCEPT !.units = 0]
                          /\ L1[k].inputs = L2[k].inputs
                          /\ L1[k].units # L2[k].units <=> L1[k].name \in {"conv1", "conv2", "conv4"}

C3_Witness ==
    \E o1, o2 \in Objects :
        /\ Called(o1, "AlexNet") /\ Called(o2, "AlexNet")
        /\ ctor[o1].version = "owt" /\ ctor[o2].version = "OWT"
        /\ last[o1].name = "AlexNetOWT" /\ last[o2].name = "AlexNet"

-----------------------------------------------------------------------------
\* C4: create() changes neither the fields of its object nor the CONFIGS
\* tables: after any number of calls they are as right after construction,
\* the latest call returns the architecture of the first call, and that of
\* any other object constructed with the same version.
C4_ReadOnly ==
    /\ VGG_CONFIGS = VGG_CONFIGS_table
    /\ ResNet_CONFIGS = ResNet_CONFIGS_table
    /\ \A o \in Objects : objs[o] # Unallocated =>
          /\ objs[o] = ctor[o].fields
          /\ calls[o] >= 1 => Arch(last[o]) = Arch(first[o]) /\ last[o].name = first[o].name
          /\ \A p \in Objects :
                (calls[o] >= 1 /\ calls[p] >= 1
                    /\ ctor[p].cls = ctor[o].cls /\ ctor[p].version = ctor[o].version) =>
                      Arch(last[p]) = Arch(first[o]) /\ last[p].name = first[o].name

C4_Witness ==
    \E o, p \in Objects :
        /\ o # p
        /\ ctor[o].cls = "ResNet" /\ ctor[p].cls = "ResNet" /\ ctor[o].version = ctor[p].version
        /\ calls[o] >= 2 /\ calls[p] >= 1
        /\ Arch(last[o]) = Arch(first[p])

-----------------------------------------------------------------------------
\* C5: every graph starts with exactly one input layer, named 'input', is
\* named as its model object, and ends with a Dense softmax layer, the only
\* softmax of the graph, of 8192 units for EnglishAcousticModel, 10 for
\* DeepMNIST and 1000 for AlexNet, VGG, Overfeat and ResNet.
OutputUnits(cls) ==
    CASE cls = "EnglishAcousticModel" -> 8192
      [] cls = "DeepMNIST" -> 10
      [] cls \in {"AlexNet", "VGG", "Overfeat", "ResNet"} -> 1000

C5_Interface ==
    \A o \in Objects : calls[o] >= 1 =>
        LET g == last[o]
            L == g.layers
        IN  /\ Len(L) >= 2
            /\ L[1].kind = "Input" /\ L[1].name = "input" /\ L[1].inputs = <<>>
            /\ Nodes(L, {"Input"}) = {1}
            /\ \A k \in 2..Len(L) : L[k].inputs # <<>> /\ \A n \in 1..Len(L[k].inputs) : L[k].inputs[n] < k
            /\ g.name = objs[o].name
            /\ L[Len(L)].kind = "Dense" /\ L[Len(L)].activation = "softmax"
            /\ {k \in 1..Len(L) : L[k].activation = "softmax"} = {Len(L)}
            /\ L[Len(L)].units = OutputUnits(objs[o].cls)
            /\ L[Len(L)].shape = <<OutputUnits(objs[o].cls)>>

C5_Witness ==
    \E o, p \in Objects :
        /\ Called(o, "EnglishAcousticModel") /\ Called(p, "DeepMNIST")
        /\ last[o].layers[Len(last[o].layers)].units = 8192
        /\ last[p].layers[Len(last[p].layers)].units = 10

-----------------------------------------------------------------------------
\* C6: a ResNet version uses bottleneck units exactly when its num_layers is
\* at least 50.  resnet18/34: every unit is two 3x3 convolutions of the stage
\* width, stage widths [64, 128, 256, 512].  resnet50 and deeper: every unit
\* is a 1x1, a 3x3 and a 1x1 convolution of widths (w \div 4, w \div 4, w),
\* w in [256, 512, 1024, 2048].  The stem convolution has 64 filters.
C6_Units ==
    \A o \in Objects : objs[o].cls = "ResNet" =>
        LET deep == objs[o].version \in {"resnet50", "resnet101", "resnet152", "resnet200", "resnet269"}
            widths == IF deep THEN <<256, 512, 1024, 2048>> ELSE <<64, 128, 256, 512>>
        IN  /\ objs[o].version \in {"resnet18", "resnet34"} \/ deep
            /\ deep <=> ResNet_CONFIGS[objs[o].version].num_layers >= 50
            /\ objs[o].bottle_neck <=> deep
            /\ calls[o] >= 1 =>
                  LET L == last[o].layers
                  IN  /\ L[NodeNamed(L, "conv1/conv")].units = 64
                      /\ \A a \in AddNodes(L) :
                            LET w == widths[StageOf(L, a)]
                                c == Branch2Convs(L, a, deep)
                                in == UnitInput(L, a, deep)
                            IN  /\ \A n \in 1..Len(c) : L[c[n]].kind = "Conv2D"
                                \* branch2 starts at the node the shortcut starts at
                                /\ L[in].kind \in {"Activation", "MaxPooling2D"}
                                /\ in = IF IsProjected(L, a) THEN Prev(L, Branch1Conv(L, a))
                                                             ELSE L[a].inputs[1]
                                /\ <<L[in].kind, L[in].activation>> \in
                                      {<<"Activation", "relu">>, <<"MaxPooling2D", None>>}
                                /\ [n \in 1..Len(c) |-> L[c[n]].kernel] =
                                      IF deep THEN << <<1, 1>>, <<3, 3>>, <<1, 1>> >>
                                              ELSE << <<3, 3>>, <<3, 3>> >>
                                /\ [n \in 1..Len(c) |-> L[c[n]].units] =
                                      IF deep THEN <<w \div 4, w \div 4, w>> ELSE <<w, w>>

C6_Witness ==
    \E o, p \in Objects :
        /\ Called(o, "ResNet") /\ Called(p, "ResNet")
        /\ objs[o].version = "resnet34" /\ ~objs[o].bottle_neck
        /\ objs[p].version = "resnet50" /\ objs[p].bottle_neck
        /\ Cardinality(AddNodes(last[o].layers)) = Cardinality(AddNodes(last[p].layers))

-----------------------------------------------------------------------------
\* C7: in every ResNet version the 7x7 average pooling 'apool' receives a 7x7
\* feature map (224 -> 112 after the stem, -> 56 after the max pool, stride 1
\* in stage 1 and stride 2 in the first unit of stages 2, 3, 4), so 'apool'
\* outputs 1x1 and 'flatten' yields filter_list[4] features: 512 for
\* resnet18/34 and 2048 for resnet50 and deeper.
C7_Spatial ==
    \A o \in Objects : Called(o, "ResNet") =>
        LET L == last[o].layers
            apool == NodeNamed(L, "apool")
            features == IF objs[o].version \in {"resnet18", "resnet34"} THEN 512 ELSE 2048
            side == [n \in 1..4 |-> IF n = 1 THEN 56 ELSE IF n = 2 THEN 28 ELSE IF n = 3 THEN 14 ELSE 7]
        IN  /\ L[1].shape = <<224, 224, 3>>
            /\ L[NodeNamed(L, "conv1/conv")].shape = <<112, 112, 64>>
            /\ L[NodeNamed(L, "conv1/mpool")].shape = <<56, 56, 64>>
            /\ \A a \in AddNodes(L) :
                  L[a].shape = <<side[StageOf(L, a)], side[StageOf(L, a)],
                                 At(objs[o].filter_list, StageOf(L, a))>>
            /\ L[apool].kind = "AveragePooling2D" /\ L[apool].kernel = <<7, 7>>
            /\ L[Prev(L, apool)].shape = <<7, 7, features>>
            /\ L[apool].shape = <<1, 1, features>>
            /\ L[NodeNamed(L, "flatten")].shape = <<features>>
            /\ Prev(L, NodeNamed(L, "flatten")) = apool
            /\ features = At(objs[o].filter_list, 4)

C7_Witness ==
    \E o, p \in Objects :
        /\ Called(o, "ResNet") /\ objs[o].version = "resnet18"
        /\ Called(p, "ResNet") /\ objs[p].version = "resnet152"
        /\ last[o].layers[NodeNamed(last[o].layers, "flatten")].shape = <<512>>
        /\ last[p].layers[NodeNamed(last[p].layers, "flatten")].shape = <<2048>>

-----------------------------------------------------------------------------
\* C8: in every residual unit of every ResNet version the two inputs of the
\* 'sum' Add layer have the same shape: with dim_match the unit's input has
\* num_filters channels already and the unit has stride 1; without it the
\* branch1 projection (1x1, stride s, 'same', num_filters filters) yields the
\* shape of the branch2 path of stride s.
C8_SumShapes ==
    \A o \in Objects : Called(o, "ResNet") =>
        LET L == last[o].layers
        IN  \A a \in AddNodes(L) :
                LET c == Branch2Convs(L, a, objs[o].bottle_neck)
                    in == UnitInput(L, a, objs[o].bottle_neck)
                    num_filters == L[c[Len(c)]].units
                    \* the strided convolution of branch2: 2b when bottleneck, else 2a
                    strided == IF objs[o].bottle_neck THEN c[2] ELSE c[1]
                IN  /\ Len(L[a].inputs) = 2
                    /\ L[L[a].inputs[1]].shape = L[L[a].inputs[2]].shape
                    /\ L[a].shape = L[L[a].inputs[2]].shape
                    /\ \A n \in 1..Len(c) : n # (IF objs[o].bottle_neck THEN 2 ELSE 1) =>
                          L[c[n]].strides = <<1, 1>>
                    /\ ~IsProjected(L, a) =>
                          /\ L[a].inputs[1] = in
                          /\ L[in].shape[3] = num_filters
                          /\ L[strided].strides = <<1, 1>>
                    /\ IsProjected(L, a) =>
                          LET b1 == Branch1Conv(L, a)
                          IN  /\ Prev(L, b1) = in
                              /\ L[b1].kernel = <<1, 1>> /\ L[b1].padding = "same"
                              /\ L[b1].units = num_filters
                              /\ L[b1].strides = L[strided].strides
                              /\ L[b1].shape = L[L[a].inputs[2]].shape

C8_Witness ==
    \E o \in Objects :
        /\ Called(o, "ResNet") /\ objs[o].version = "resnet101"
        /\ \E a, b \in AddNodes(last[o].layers) :
              /\ IsProjected(last[o].layers, a) /\ ~IsProjected(last[o].layers, b)
              /\ last[o].layers[Branch1Conv(last[o].layers, a)].strides = <<2, 2>>
              /\ last[o].layers[a].shape = last[o].layers[b].shape

====
